---- MODULE Spec2Model ----
(***************************************************************************)
(* The simple blocks of leansdr/generic.h: file_reader, file_writer,       *)
(* file_printer, file_carrayprinter, itemcounter and decimator.            *)
(*                                                                         *)
(* One block is under test in each behaviour (variable blk, chosen by      *)
(* Init).  Its input pipebuf is fed by an upstream producer and its output *)
(* pipebuf is drained by a downstream consumer, both arbitrary.  With blk  *)
(* "pipeline" a file_reader feeds a file_writer through one pipebuf, which *)
(* is then both out (of the reader) and in (of the writer).  A pipebuf     *)
(* is the sequence of the elements committed and not yet consumed.  The    *)
(* file behind fdin is a byte string whose byte at offset o has value o,   *)
(* so that an element read from it tells where it came from.               *)
(***************************************************************************)
EXTENDS Integers, Sequences, FiniteSets, TLC

\* ------------------------------------------------------------- bounds
MaxElemSize  == 3   \* sizeof(T) ranges over 1..MaxElemSize
MaxFileBytes == 6   \* bytes the file behind fdin can hold
OutCap       == 3   \* capacity of the output pipebuf, in elements
MaxItems     == 7   \* elements the upstream producer ever appends
MaxPasses    == 3   \* passes through file_reader's "again:" that are followed
MaxStream    == 6   \* file_reader invocations start while fewer were committed
MaxRuns      == 2   \* the invocation counter saturates here
MaxD         == 3   \* decimator strides 0..MaxD
MaxScale     == 2   \* scale factors 1..MaxScale

VARIABLES
  blk,        \* the block under test
  esz,        \* sizeof(T)
  loop,       \* file_reader::loop
  fdin,       \* the descriptor file_reader reads: [len, pos, seekable, grows, fails]
  in,         \* the input pipebuf: elements readable by the block
  out,        \* the output pipebuf: elements committed by the block, not yet drained
  err,        \* "" or the message given to fatal(): the run has been aborted
  pc,         \* "idle" between invocations, "again" inside file_reader::run
  call,       \* the locals of the current (or last) invocation of run()
  runs,       \* invocations of run() started so far (saturating at MaxRuns)
  nextval,    \* number of elements the upstream producer has appended
  consumed,   \* every element the block has consumed from in, in order
  committed,  \* every element the block has committed to out, in order
  fdout,      \* everything written to fdout (or to the stream fout), in order
  d,          \* decimator::d
  scale,      \* file_printer::scale, file_carrayprinter::scale
  format,     \* file_printer::format: [width], the least length it renders
  fout,       \* file_carrayprinter::fout: "FILE", or "NULL" when fdopen() failed
  eof         \* a read() of file_reader has returned zero bytes

\* What the constructors fix for the lifetime of the block.
conf == <<blk, esz, loop, d, format, fout>>

vars == <<conf, scale, fdin, in, out, err, pc, call, runs, nextval,
          consumed, committed, fdout, eof>>

Min(a, b) == IF a < b THEN a ELSE b

\* ------------------------------------------------------ element encoding
\* The s bytes of the v-th element of a byte stream: bytes v*s .. v*s+s-1.
Elem(v, s) == [k \in 1..s |-> v * s + k - 1]

\* The n bytes of the file starting at offset pos.
FileBytes(pos, n) == [i \in 1..n |-> pos + i - 1]

\* The memory at out.wr() seen as elements of size s: the first n of them.
ElemsOf(bytes, s, n) == [i \in 1..n |-> SubSeq(bytes, (i - 1) * s + 1, i * s)]

\* The first nbytes bytes of the memory at in.rd().
RECURSIVE Flatten(_)
Flatten(elems) ==
  IF elems = <<>> THEN <<>> ELSE Head(elems) \o Flatten(Tail(elems))

BytesOf(elems, nbytes) == SubSeq(Flatten(elems), 1, nbytes)

\* ------------------------------------------------------------ pipebuf
readable(buf) == Len(buf)
writable(buf) == OutCap - Len(buf)
read(buf, n) == SubSeq(buf, n + 1, Len(buf))
written(buf, elems) == buf \o elems

\* --------------------------------------------------------- system calls
\* read(2): an error, or as many bytes as the file holds past its offset.
ReadResults(f, size) ==
  (IF f.fails THEN {-1} ELSE {}) \cup {Min(size, f.len - f.pos)}

\* lseek(fd, off, SEEK_SET): the new offset off, or (off_t)-1.
LseekResults(f, off) == IF f.seekable THEN {off} ELSE {-1}

\* write(2) of size bytes: an error, a closed peer, or 1..size bytes taken.
WriteResults(size) == -1 .. size

NoCall == [op |-> "none", readable |-> 0, writable |-> 0, rd |-> 0, wr |-> 0,
           io |-> 0, nreads |-> 0, nseeks |-> 0, nwrites |-> 0]

Enter(op) == [NoCall EXCEPT !.op = op]

Bump(n) == Min(n + 1, MaxRuns)

\* The scenarios a file_reader, a file_writer runs in.
ReaderBlocks == {"file_reader", "pipeline"}
WriterBlocks == {"file_writer", "pipeline"}

\* -------------------------------------------------------- file_reader
\* Variant: the byte count asked of read() is the element count.
FileReaderSizeElems(w, s) == w

FileReaderSize(w, s) == w * s

\* Variant: the rewind lands one element past the start of the file.
FileReaderSeekOffsetSkip == esz

FileReaderSeekOffset == 0

FileReaderPartial(nr, s) == nr % s # 0

FileReaderCommitCount(nr, s) == nr \div s

\* Variant: a zero-byte read rewinds whether or not loop is set.
FileReaderEofNoLoopTest(nr, lp) == FALSE

\* if ( !nr && !loop ) return;
FileReaderEof(nr, lp) == nr = 0 /\ ~lp

\* One pass from "again:" to the return, the fatal() or the goto.
FileReaderPass(c, size) ==
  \E nr \in ReadResults(fdin, size) :
    /\ eof' = (eof \/ nr = 0)
    /\ LET c1 == [c EXCEPT !.io = nr, !.nreads = @ + 1]
           f1 == [fdin EXCEPT !.pos = IF nr > 0 THEN @ + nr ELSE @]
       IN
       IF nr < 0 THEN
         /\ err' = "read" /\ pc' = "idle" /\ call' = c1
         /\ UNCHANGED <<fdin, out, committed>>
       ELSE IF FileReaderEof(nr, loop) THEN
         /\ pc' = "idle" /\ call' = c1
         /\ UNCHANGED <<fdin, out, committed, err>>
       ELSE IF nr = 0 THEN
         \E res \in LseekResults(fdin, FileReaderSeekOffset) :
           IF res = -1 THEN
             /\ err' = "lseek" /\ pc' = "idle"
             /\ call' = [c1 EXCEPT !.nseeks = @ + 1]
             /\ UNCHANGED <<fdin, out, committed>>
           ELSE
             /\ fdin' = [fdin EXCEPT !.pos = res]
             /\ pc' = "again"
             /\ call' = [c1 EXCEPT !.nseeks = @ + 1]
             /\ UNCHANGED <<out, committed, err>>
       ELSE IF FileReaderPartial(nr, esz) THEN
         /\ err' = "partial read" /\ pc' = "idle" /\ call' = c1
         /\ fdin' = f1
         /\ UNCHANGED <<out, committed>>
       ELSE
         LET n == FileReaderCommitCount(nr, esz)
             elems == ElemsOf(FileBytes(fdin.pos, nr), esz, n)
         IN
         /\ out' = written(out, elems)
         /\ committed' = committed \o elems
         /\ fdin' = f1
         /\ pc' = "idle"
         /\ call' = [c1 EXCEPT !.wr = n]
         /\ UNCHANGED err

FileReaderRun ==
  /\ blk \in ReaderBlocks /\ err = "" /\ pc = "idle"
  /\ Len(committed) < MaxStream
  /\ runs' = Bump(runs)
  /\ LET c == [Enter("file_reader") EXCEPT !.writable = writable(out)]
         size == FileReaderSize(c.writable, esz)
     IN
     IF size = 0 THEN
       /\ call' = c
       /\ UNCHANGED <<fdin, out, committed, err, pc, eof>>
     ELSE FileReaderPass(c, size)
  /\ in' = (IF blk = "pipeline" THEN out' ELSE in)
  /\ UNCHANGED <<conf, scale, nextval, consumed, fdout>>

FileReaderAgain ==
  /\ blk \in ReaderBlocks /\ err = "" /\ pc = "again"
  /\ call.nreads < MaxPasses
  /\ FileReaderPass(call, FileReaderSize(call.writable, esz))
  /\ in' = (IF blk = "pipeline" THEN out' ELSE in)
  /\ UNCHANGED <<conf, scale, nextval, consumed, fdout, runs>>

\* The environment appends one byte to the file behind fdin.
FdFeed ==
  /\ blk \in ReaderBlocks /\ err = ""
  /\ fdin.grows /\ fdin.len < MaxFileBytes
  /\ fdin' = [fdin EXCEPT !.len = @ + 1]
  /\ UNCHANGED <<conf, scale, in, out, err, pc, call, runs, nextval,
                 consumed, committed, fdout, eof>>

\* -------------------------------------------------------- file_writer
FileWriterSize(r, s) == r * s

\* Variant: a zero result is reported like a failed write.
FileWriterFatalMerged(nw, s) ==
  IF nw <= 0 THEN "write"
  ELSE IF nw % s # 0 THEN "partial write"
  ELSE ""

\* Variant: the result is not checked against sizeof(T).
FileWriterFatalNoPartial(nw, s) ==
  IF nw = 0 THEN "pipe"
  ELSE IF nw < 0 THEN "write"
  ELSE ""

\* The checks on write()'s result, in the order run() makes them: the
\* message given to fatal(), or "" when none applies.
FileWriterFatal(nw, s) ==
  IF nw = 0 THEN "pipe"
  ELSE IF nw < 0 THEN "write"
  ELSE IF nw % s # 0 THEN "partial write"
  ELSE ""

\* Variant: everything readable is consumed, whatever write() took.
FileWriterReadCountAll(nw, s) == readable(in)

FileWriterReadCount(nw, s) == nw \div s

FileWriterRun ==
  /\ blk \in WriterBlocks /\ err = "" /\ pc = "idle"
  /\ runs' = Bump(runs)
  /\ LET c == [Enter("file_writer") EXCEPT !.readable = readable(in)]
         size == FileWriterSize(c.readable, esz)
     IN
     IF size = 0 THEN
       /\ call' = c
       /\ UNCHANGED <<in, consumed, fdout, err>>
     ELSE
       \E nw \in WriteResults(size) :
         LET c1 == [c EXCEPT !.io = nw, !.nwrites = @ + 1]
             taken == IF nw > 0 THEN BytesOf(in, nw) ELSE <<>>
         IN
         /\ fdout' = fdout \o taken
         /\ IF FileWriterFatal(nw, esz) # "" THEN
              /\ err' = FileWriterFatal(nw, esz) /\ call' = c1
              /\ UNCHANGED <<in, consumed>>
            ELSE
              LET n == FileWriterReadCount(nw, esz) IN
              /\ in' = read(in, n)
              /\ consumed' = consumed \o SubSeq(in, 1, n)
              /\ call' = [c1 EXCEPT !.rd = n]
              /\ UNCHANGED err
  /\ out' = (IF blk = "pipeline" THEN in' ELSE out)
  /\ UNCHANGED <<conf, scale, fdin, committed, pc, nextval, eof>>

\* ------------------------------------------------------- file_printer
BufSize == 256

Max(a, b) == IF a < b THEN b ELSE a

RECURSIVE NumDigits(_)
NumDigits(x) == IF x < 10 THEN 1 ELSE 1 + NumDigits(x \div 10)

\* The length of x rendered through fmt: at least the template's width.
RenderLen(fmt, x) == Max(fmt.width, NumDigits(x))

\* snprintf(buf, sizeof(buf), ...): the length the whole text needs; a glibc
\* before 2.1 answers -1 when the text does not fit.
SnprintfResults(len) == IF len < BufSize THEN {len} ELSE {len, -1}

\* write(2) of a rendered text of len bytes.
PrintWriteResults(len) == {-1, 0, len - 1, len}

\* The writes of the first k readable elements, each complete.
PrintedText(buf, k) ==
  [i \in 1..k |-> [val |-> buf[i] * scale,
                   len |-> RenderLen(format, buf[i] * scale),
                   nw  |-> RenderLen(format, buf[i] * scale)]]

\* Variant: the elements written before the fatal one are consumed.
FilePrinterConsumedOnFatalWritten(k) == k

\* fatal() leaves run() inside the loop, before in.read(n): nothing is consumed.
FilePrinterConsumedOnFatal(k) == 0

FilePrinterRun ==
  /\ blk = "file_printer" /\ err = "" /\ pc = "idle"
  /\ runs' = Bump(runs)
  /\ LET n == readable(in)
         c == [Enter("file_printer") EXCEPT !.readable = n]
     IN
     \/ \* every element is rendered and written whole
        /\ fdout' = fdout \o PrintedText(in, n)
        /\ in' = read(in, n)
        /\ consumed' = consumed \o SubSeq(in, 1, n)
        /\ call' = [c EXCEPT !.rd = n, !.nwrites = n]
        /\ UNCHANGED err
     \/ \* the element after the first k ends the run
        \E k \in 0..(n - 1) :
          LET x == in[k + 1] * scale IN
          \E len \in SnprintfResults(RenderLen(format, x)) :
            IF len < 0 THEN
              /\ err' = "obsolete glibc"
              /\ fdout' = fdout \o PrintedText(in, k)
              /\ call' = [c EXCEPT !.nwrites = k]
              /\ in' = read(in, FilePrinterConsumedOnFatal(k))
              /\ consumed' = consumed
                                \o SubSeq(in, 1, FilePrinterConsumedOnFatal(k))
            ELSE
              \E nw \in PrintWriteResults(len) \ {len} :
                /\ err' = "partial write"
                /\ fdout' = (fdout \o PrintedText(in, k))
                              \o <<[val |-> x, len |-> len, nw |-> nw]>>
                /\ call' = [c EXCEPT !.nwrites = k + 1, !.io = nw]
                /\ in' = read(in, FilePrinterConsumedOnFatal(k))
                /\ consumed' = consumed
                                  \o SubSeq(in, 1, FilePrinterConsumedOnFatal(k))
  /\ UNCHANGED <<conf, scale, fdin, out, committed, pc, nextval, eof>>

\* ------------------------------------------------- file_carrayprinter
\* Variant: the tail is written before the elements.
CArrayTextTailFirst(buf, n) ==
  <<[tok |-> "head", n |-> n], [tok |-> "tail"]>>
  \o [i \in 1..n |-> [tok |-> "format", re |-> buf[i].re * scale,
                                         im |-> buf[i].im * scale]]
  \o <<[tok |-> "fflush"]>>

\* What one run hands to fout: fprintf(head, n), one fprintf(format, ..) for
\* each element, fprintf(tail), then fflush.
CArrayText(buf, n) ==
  <<[tok |-> "head", n |-> n]>>
  \o [i \in 1..n |-> [tok |-> "format", re |-> buf[i].re * scale,
                                         im |-> buf[i].im * scale]]
  \o <<[tok |-> "tail"], [tok |-> "fflush"]>>

\* if ( n && fout )
FileCArrayPrinterEmits(n, f) == n # 0 /\ f # "NULL"

\* Variant: the input is consumed only when it was printed.
FileCArrayPrinterReadCountIfPrinted(n, f) ==
  IF FileCArrayPrinterEmits(n, f) THEN n ELSE 0

\* in.read(n), after and outside the if.
FileCArrayPrinterReadCount(n, f) == n

FileCArrayPrinterRun ==
  /\ blk = "file_carrayprinter" /\ err = "" /\ pc = "idle"
  /\ runs' = Bump(runs)
  /\ LET n == readable(in)
         c == [Enter("file_carrayprinter") EXCEPT !.readable = n]
     IN
     /\ fdout' = IF FileCArrayPrinterEmits(n, fout)
                 THEN fdout \o CArrayText(in, n)
                 ELSE fdout
     /\ LET k == FileCArrayPrinterReadCount(n, fout) IN
        /\ in' = read(in, k)
        /\ consumed' = consumed \o SubSeq(in, 1, k)
        /\ call' = [c EXCEPT !.rd = k]
  /\ UNCHANGED <<conf, scale, fdin, out, committed, pc, nextval, err, eof>>

\* An external controller changes the public scale member between invocations.
SetScale ==
  /\ blk \in {"file_printer", "file_carrayprinter"} /\ err = "" /\ pc = "idle"
  /\ \E x \in 1..MaxScale : x # scale /\ scale' = x
  /\ UNCHANGED <<conf, fdin, in, out, err, pc, call, runs, nextval,
                 consumed, committed, fdout, eof>>

\* -------------------------------------------------------- itemcounter
\* Variant: the count runs on from the earlier invocations.
ItemCounterValueTotal(count) == Len(consumed) + count

ItemCounterValue(count) == count

\* Variant: a full output buffer is not noticed.
ItemCounterFullNegative(w) == w < 0

\* if ( out.writable() < 1 ) return;
ItemCounterFull(w) == w < 1

\* Variant: an empty input is counted too.
ItemCounterEmptyNever(count) == FALSE

\* if ( ! count ) return;
ItemCounterEmpty(count) == count = 0

ItemCounterRun ==
  /\ blk = "itemcounter" /\ err = "" /\ pc = "idle"
  /\ runs' = Bump(runs)
  /\ LET c == [Enter("itemcounter") EXCEPT !.writable = writable(out)] IN
     IF ItemCounterFull(c.writable) THEN
       /\ call' = c
       /\ UNCHANGED <<in, out, consumed, committed>>
     ELSE
       LET count == readable(in) IN
       IF ItemCounterEmpty(count) THEN
         /\ call' = c
         /\ UNCHANGED <<in, out, consumed, committed>>
       ELSE
         /\ out' = written(out, <<ItemCounterValue(count)>>)
         /\ committed' = Append(committed, ItemCounterValue(count))
         /\ in' = read(in, count)
         /\ consumed' = consumed \o SubSeq(in, 1, count)
         /\ call' = [c EXCEPT !.readable = count, !.rd = count, !.wr = 1]
  /\ UNCHANGED <<conf, scale, fdin, err, pc, nextval, fdout, eof>>

\* ---------------------------------------------------------- decimator
\* Variant: the output's free space is not taken into account.
DecimatorCountUncapped(r, dd, w) == r \div dd

DecimatorCount(r, dd, w) == Min(r \div dd, w)

\* Variant: the last element of each group of d is kept, not the first.
RECURSIVE DecimatorCopyLast(_, _, _, _)
DecimatorCopyLast(buf, pin, pend, dd) ==
  IF pin < pend
  THEN <<buf[pin + dd]>> \o DecimatorCopyLast(buf, pin + dd, pend, dd)
  ELSE <<>>

\* Variant: every copy reads the element at in.rd().
RECURSIVE DecimatorCopyFirst(_, _, _, _)
DecimatorCopyFirst(buf, pin, pend, dd) ==
  IF pin < pend
  THEN <<buf[1]>> \o DecimatorCopyFirst(buf, pin + dd, pend, dd)
  ELSE <<>>

\* for ( ; pin<pend; pin+=d, ++pout ) *pout = *pin;
RECURSIVE DecimatorCopy(_, _, _, _)
DecimatorCopy(buf, pin, pend, dd) ==
  IF pin < pend
  THEN <<buf[pin + 1]>> \o DecimatorCopy(buf, pin + dd, pend, dd)
  ELSE <<>>

\* Variant: the input is advanced by the number of elements kept.
DecimatorApplyReadCount(c, count) ==
  LET kept == DecimatorCopy(in, 0, count * d, d) IN
  /\ in' = read(in, count)
  /\ consumed' = consumed \o SubSeq(in, 1, count)
  /\ out' = written(out, kept)
  /\ committed' = committed \o kept
  /\ call' = [c EXCEPT !.rd = count, !.wr = count]
  /\ UNCHANGED err

\* in.read(count*d); out.written(count); after the copy loop.
DecimatorApply(c, count) ==
  LET kept == DecimatorCopy(in, 0, count * d, d) IN
  /\ in' = read(in, count * d)
  /\ consumed' = consumed \o SubSeq(in, 1, count * d)
  /\ out' = written(out, kept)
  /\ committed' = committed \o kept
  /\ call' = [c EXCEPT !.rd = count * d, !.wr = count]
  /\ UNCHANGED err

DecimatorRun ==
  /\ blk = "decimator" /\ err = "" /\ pc = "idle"
  /\ runs' = Bump(runs)
  /\ LET c == [Enter("decimator") EXCEPT !.readable = readable(in),
                                         !.writable = writable(out)]
     IN
     IF d = 0 THEN
       \* in.readable()/d is undefined: the division traps (SIGFPE), or
       \* yields 0 where the hardware defines it so.
       \/ /\ err' = "SIGFPE" /\ call' = c
          /\ UNCHANGED <<in, out, consumed, committed>>
       \/ DecimatorApply(c, Min(0, c.writable))
     ELSE DecimatorApply(c, DecimatorCount(c.readable, d, c.writable))
  /\ UNCHANGED <<conf, scale, fdin, pc, nextval, fdout, eof>>

\* ---------------------------------------------------------- environment
HasInput  == blk \notin ReaderBlocks
HasOutput == blk \in {"file_reader", "itemcounter", "decimator"}

\* The nextval-th element of the upstream: its bytes for file_writer, a
\* complex<T> for file_carrayprinter, a number otherwise.
NewElem ==
  CASE blk = "file_writer" -> Elem(nextval, esz)
    [] blk = "file_carrayprinter" -> [re |-> nextval, im |-> nextval + MaxItems]
    [] OTHER -> nextval

\* The upstream block commits one more element to the input pipebuf.
Upstream ==
  /\ HasInput /\ err = "" /\ pc = "idle"
  /\ nextval < MaxItems
  /\ in' = Append(in, NewElem)
  /\ nextval' = nextval + 1
  /\ UNCHANGED <<conf, scale, fdin, out, err, pc, call, runs,
                 consumed, committed, fdout, eof>>

\* The downstream block consumes the oldest element of the output pipebuf.
Downstream ==
  /\ HasOutput /\ err = "" /\ pc = "idle"
  /\ out # <<>>
  /\ out' = Tail(out)
  /\ UNCHANGED <<conf, scale, fdin, in, err, pc, call, runs, nextval,
                 consumed, committed, fdout, eof>>

\* ----------------------------------------------------------------- Init
NoFd == [len |-> 0, pos |-> 0, seekable |-> FALSE, grows |-> FALSE,
         fails |-> FALSE]

InitCommon ==
  /\ in = <<>> /\ out = <<>> /\ err = "" /\ pc = "idle"
  /\ call = NoCall /\ runs = 0 /\ nextval = 0
  /\ consumed = <<>> /\ committed = <<>> /\ fdout = <<>> /\ eof = FALSE

NoFormat == [width |-> 0]

InitFileReader ==
  /\ blk = "file_reader"
  /\ esz \in 1..MaxElemSize
  /\ loop \in BOOLEAN
  /\ fdin \in [len : 0..MaxFileBytes, pos : {0}, seekable : BOOLEAN,
               grows : BOOLEAN, fails : BOOLEAN]
  /\ d = 1 /\ scale = 1 /\ format = NoFormat /\ fout = "NULL"

InitPipeline ==
  /\ blk = "pipeline"
  /\ esz \in 1..MaxElemSize
  /\ loop \in BOOLEAN
  /\ fdin \in [len : 0..MaxFileBytes, pos : {0}, seekable : BOOLEAN,
               grows : BOOLEAN, fails : BOOLEAN]
  /\ d = 1 /\ scale = 1 /\ format = NoFormat /\ fout = "NULL"

InitFileWriter ==
  /\ blk = "file_writer"
  /\ esz \in 1..MaxElemSize
  /\ loop = FALSE /\ fdin = NoFd
  /\ d = 1 /\ scale = 1 /\ format = NoFormat /\ fout = "NULL"

InitFilePrinter ==
  /\ blk = "file_printer"
  /\ format \in [width : {1, BufSize - 1, BufSize, BufSize + 1}]
  /\ scale = 1
  /\ esz = 1 /\ loop = FALSE /\ fdin = NoFd /\ d = 1 /\ fout = "NULL"

InitFileCArrayPrinter ==
  /\ blk = "file_carrayprinter"
  /\ fout \in {"FILE", "NULL"}
  /\ scale = 1
  /\ esz = 1 /\ loop = FALSE /\ fdin = NoFd /\ d = 1 /\ format = NoFormat

InitItemCounter ==
  /\ blk = "itemcounter"
  /\ esz = 1 /\ loop = FALSE /\ fdin = NoFd /\ d = 1 /\ scale = 1
  /\ format = NoFormat /\ fout = "NULL"

InitDecimator ==
  /\ blk = "decimator"
  /\ d \in 0..MaxD
  /\ esz = 1 /\ loop = FALSE /\ fdin = NoFd /\ scale = 1
  /\ format = NoFormat /\ fout = "NULL"

Init ==
  /\ InitCommon
  /\ \/ InitFileReader
     \/ InitFileWriter
     \/ InitPipeline
     \/ InitFilePrinter
     \/ InitFileCArrayPrinter
     \/ InitItemCounter
     \/ InitDecimator

Next ==
  \/ FileReaderRun
  \/ FileReaderAgain
  \/ FdFeed
  \/ FileWriterRun
  \/ FilePrinterRun
  \/ FileCArrayPrinterRun
  \/ SetScale
  \/ ItemCounterRun
  \/ DecimatorRun
  \/ Upstream
  \/ Downstream

Spec == Init /\ [][Next]_vars

\* The Source Reader alone, with the scheduler invoking it again and again
\* and the consumer draining its output.
InitReader == InitCommon /\ InitFileReader

NextReader ==
  \/ FileReaderRun
  \/ FileReaderAgain
  \/ FdFeed
  \/ Downstream

FairReader ==
  /\ InitReader /\ [][NextReader]_vars
  /\ WF_vars(FileReaderRun) /\ WF_vars(FileReaderAgain) /\ WF_vars(Downstream)

\* =============================================================== claims

\* C1: no invocation of run(), of any of the six blocks, advances its reader
\* handle by more than the readable count it queried, nor its writer handle
\* by more than the writable count it queried.
C1_AdvanceWithinQuery ==
  /\ call.rd <= call.readable
  /\ call.wr <= call.writable

\* C1 witness: a decimator invocation that filled all the free output slots
\* it had queried and left input behind.
C1_Witness ==
  /\ call.op = "decimator" /\ d >= 2
  /\ call.wr = call.writable /\ call.wr >= 1
  /\ call.rd >= 1 /\ call.rd < call.readable

\* C2 (as claimed): a looping file_reader invocation issues at most two
\* reads and at most one seek.
C2_BoundedRetry ==
  (blk = "file_reader" /\ loop) => (call.nreads <= 2 /\ call.nseeks <= 1)

\* C3 (as claimed): a file_writer invocation with a nonzero readable count
\* that ends without a fatal error has consumed the whole readable count.
C3_ConsumesAll ==
  (call.op = "file_writer" /\ call.readable > 0 /\ err = "")
    => call.rd = call.readable

\* C3 (amended): such an invocation has consumed exactly nw/sizeof(T)
\* elements, nw the byte count write() returned: at least one element, at
\* most the readable count, and the bytes on fdout are those of the elements
\* consumed.
C3_ConsumesWritten ==
  (call.op = "file_writer" /\ call.readable > 0 /\ err = "")
    => /\ call.rd * esz = call.io
       /\ 1 <= call.rd /\ call.rd <= call.readable
       /\ fdout = Flatten(consumed)

\* C3 witness: a short write that took some, not all, readable elements.
C3_Witness ==
  /\ call.op = "file_writer" /\ err = "" /\ esz = 2
  /\ call.rd >= 1 /\ call.rd < call.readable

\* C4: one decimator invocation with stride d >= 1, a readable and c
\* writable, n = min(a div d, c), appends the input elements at offsets
\* 0, d, .., (n-1)d to the output, advances the input by n*d and the output
\* by n, and leaves the other a - n*d input elements in place.
C4_DecimatorStep ==
  [][(d >= 1 /\ DecimatorRun) =>
       LET a == Len(in)
           c == OutCap - Len(out)
           n == IF a \div d < c THEN a \div d ELSE c
       IN /\ out' = out \o [i \in 1..n |-> in[(i - 1) * d + 1]]
          /\ in' = [i \in 1..(a - n * d) |-> in[n * d + i]]
          /\ call'.rd = n * d
          /\ call'.wr = n]_vars

\* C4 witness: stride 3 over [0..6] gave [0,3], consumed 6 and left 6.
C4_Witness ==
  /\ blk = "decimator" /\ d = 3 /\ call.op = "decimator"
  /\ call.readable = 7 /\ call.rd = 6 /\ call.wr = 2
  /\ committed = <<0, 3>> /\ in = <<6>>

\* C5: with stride 1 the elements committed to the output are the elements
\* consumed from the input, one for one and in order.
C5_Identity ==
  (blk = "decimator" /\ d = 1) => committed = consumed

\* C5 witness: several invocations, appends and drains in between, all the
\* upstream's elements through.
C5_Witness ==
  /\ blk = "decimator" /\ d = 1 /\ runs = MaxRuns
  /\ Len(committed) = MaxItems /\ Len(out) = 1

\* C6: an itemcounter invocation with a free output slot and r >= 1 readable
\* elements commits one element of value r and consumes r elements; no
\* invocation commits more than one element.
C6_CountOnce ==
  [][ItemCounterRun =>
       LET r == Len(in)
           w == OutCap - Len(out)
       IN /\ Len(committed') <= Len(committed) + 1
          /\ (w >= 1 /\ r >= 1) =>
               /\ out' = Append(out, r)
               /\ committed' = Append(committed, r)
               /\ in' = <<>>
               /\ Len(consumed') = Len(consumed) + r]_vars

\* C6 witness: a second count, of 3 elements, after 2 had been counted.
C6_Witness ==
  /\ blk = "itemcounter" /\ call.op = "itemcounter"
  /\ committed = <<2, 3>> /\ Len(consumed) = 5 /\ call.rd = 3

\* The file behind fdin holds whole elements, does not change and reads
\* without error.
WholeStaticFile ==
  /\ blk = "file_reader"
  /\ ~fdin.grows /\ ~fdin.fails
  /\ fdin.len % esz = 0

\* The first n elements of the file.
FileElems(n) == [i \in 1..n |-> [k \in 1..esz |-> (i - 1) * esz + k - 1]]

\* C7: a non-looping file_reader over a file of N whole elements, N within
\* the output capacity: once an invocation has returned, exactly the N
\* elements of the file have been committed, in order, however many
\* invocations followed, and no fatal error was raised.
C7_ReadExact ==
  (WholeStaticFile /\ ~loop /\ fdin.len \div esz <= OutCap
     /\ runs >= 1 /\ pc = "idle")
    => /\ committed = FileElems(fdin.len \div esz)
       /\ err = ""

\* C7 witness: three 2-byte elements read by the first invocation, a later
\* invocation read zero bytes and committed nothing.
C7_Witness ==
  /\ WholeStaticFile /\ ~loop /\ esz = 2 /\ fdin.len = 6
  /\ runs = MaxRuns /\ pc = "idle"
  /\ call.nreads = 1 /\ call.io = 0 /\ call.wr = 0
  /\ Len(committed) = 3

\* A looping file_reader over a seekable, unchanging file of k >= 1 whole
\* elements.
LoopingFile ==
  /\ WholeStaticFile /\ loop /\ fdin.seekable
  /\ fdin.len >= esz

\* C8: for such a reader the committed stream is always a prefix of the
\* file's elements repeated for ever, no fatal error is reached, and the
\* stream keeps growing (it reaches every bound on its length).
C8_Periodic ==
  /\ [](LoopingFile =>
          /\ err = ""
          /\ \A i \in 1..Len(committed) :
               committed[i] =
                 [k \in 1..esz |->
                    ((i - 1) % (fdin.len \div esz)) * esz + k - 1])
  /\ (LoopingFile ~> Len(committed) >= MaxStream)

\* C8 witness: a two-element file gone round: 0, 1, 0, 1, ...
C8_Witness ==
  /\ LoopingFile /\ esz = 2 /\ fdin.len = 4
  /\ Len(committed) >= 5 /\ call.nseeks = 1 /\ call.wr >= 1

\* C9: a read or write that returned a positive byte count that is no
\* multiple of sizeof(T) ended the run with the partial read / partial write
\* fatal error, and that invocation advanced no handle.
C9_PartialFatal ==
  (call.op \in {"file_reader", "file_writer"}
     /\ call.io > 0 /\ call.io % esz # 0)
    => /\ err = (IF call.op = "file_reader" THEN "partial read"
                 ELSE "partial write")
       /\ call.rd = 0 /\ call.wr = 0
       /\ call.op = "file_writer" => Len(in) = call.readable

\* C9 witness: a write of 3-byte elements that took 4 bytes.
C9_Witness ==
  /\ call.op = "file_writer" /\ esz = 3 /\ call.io = 4
  /\ err = "partial write"

\* C10: a write that returned 0 for a nonzero readable count ended the run
\* with the fatal error "pipe" (a negative result with "write"), in the
\* invocation that issued it, with the input not advanced and that one write
\* the only one issued.
C10_BrokenPipe ==
  (call.op = "file_writer" /\ call.nwrites >= 1)
    => /\ call.nwrites = 1
       /\ call.io = 0 => (err = "pipe" /\ call.rd = 0)
       /\ call.io < 0 => (err = "write" /\ call.rd = 0)

\* C10 witness: two elements readable, write() returned 0.
C10_Witness ==
  /\ call.op = "file_writer" /\ call.readable = 2 /\ call.nwrites = 1
  /\ call.io = 0 /\ err = "pipe" /\ Len(in) = 2

\* C11 (as claimed): file_printer issues no write for an element whose
\* rendered text does not fit buf (snprintf reports a length at or beyond
\* sizeof(buf)): every write it issues has a length below BufSize.
C11_NoOversizeWrite ==
  blk = "file_printer" =>
    \A i \in 1..Len(fdout) : fdout[i].len < BufSize

\* C12 (as claimed): once a read of a non-looping file_reader has returned
\* zero bytes, no later step commits an element.
C12_IdleAfterEof ==
  [][(blk = "file_reader" /\ ~loop /\ eof) => committed' = committed]_vars

\* C12 (amended): once a read of a non-looping file_reader has returned zero
\* bytes, a step taken while the file holds no byte past the descriptor's
\* offset commits nothing and leaves the offset where it is.
C12_IdleWhileNoData ==
  [][(blk = "file_reader" /\ ~loop /\ eof /\ fdin.pos = fdin.len)
       => (committed' = committed /\ fdin'.pos = fdin.pos)]_vars

\* C12 witness: an unchanging empty file, read a second time: zero bytes
\* again, nothing committed.
C12_Witness ==
  /\ blk = "file_reader" /\ ~loop /\ eof /\ ~fdin.grows /\ fdin.len = 0
  /\ runs = MaxRuns /\ pc = "idle"
  /\ call.nreads = 1 /\ call.io = 0 /\ committed = <<>>

\* C13: an invocation that cannot make progress changes nothing: file_reader
\* with no writable slot issues no read and no seek; file_writer with nothing
\* readable issues no write; itemcounter with no free output slot or nothing
\* readable, and decimator with no free output slot or fewer than d readable
\* elements, leave both buffers as they were.  Buffers, descriptor offset
\* and written output are the same after run() as before, and no fatal
\* error is raised (stride 0 aside, where the division may trap).
C13_NoProgressNoChange ==
  [][LET same == /\ in' = in /\ out' = out /\ fdin' = fdin
                 /\ fdout' = fdout /\ err' = err
                 /\ consumed' = consumed /\ committed' = committed
     IN
     /\ (FileReaderRun /\ OutCap - Len(out) = 0)
          => (same /\ call'.nreads = 0 /\ call'.nseeks = 0 /\ pc' = "idle")
     /\ (FileWriterRun /\ Len(in) = 0) => (same /\ call'.nwrites = 0)
     /\ (ItemCounterRun /\ (OutCap - Len(out) = 0 \/ Len(in) = 0)) => same
     /\ (DecimatorRun /\ (OutCap - Len(out) = 0 \/ Len(in) < d))
          => /\ in' = in /\ out' = out
             /\ consumed' = consumed /\ committed' = committed
             /\ d >= 1 => err' = err]_vars

\* C13 witness: a stride-3 decimator invoked on two readable elements and
\* free output space left them where they were.
C13_Witness ==
  /\ blk = "decimator" /\ d = 3 /\ call.op = "decimator"
  /\ call.readable = 2 /\ call.writable >= 1 /\ call.rd = 0 /\ call.wr = 0
  /\ in = <<3, 4>> /\ committed = <<0>>

\* C14: with fout NULL (fdopen failed), every file_carrayprinter invocation
\* with n readable elements advances the input by exactly n, emits nothing
\* and raises no fatal error.
C14_SilentDiscard ==
  [][(FileCArrayPrinterRun /\ fout = "NULL") =>
       /\ in' = <<>>
       /\ consumed' = consumed \o in
       /\ call'.rd = Len(in)
       /\ fdout' = <<>>
       /\ err' = ""]_vars

\* C14 witness: three elements discarded by one invocation, after others,
\* and nothing ever printed.
C14_Witness ==
  /\ blk = "file_carrayprinter" /\ fout = "NULL"
  /\ call.op = "file_carrayprinter" /\ call.rd = 3
  /\ Len(consumed) = 5 /\ fdout = <<>> /\ err = ""

\* C15: with a file_reader feeding a file_writer through one pipebuf, under
\* every interleaving of their invocations and every short read or write,
\* what has been written to fdout is at all times a prefix of what the
\* reader has committed, in the same order, nothing twice and nothing
\* skipped; the elements still buffered are the rest of it.
C15_PipelineFifo ==
  blk = "pipeline" =>
    LET bytes == Flatten(committed) IN
    /\ Len(fdout) <= Len(bytes)
    /\ fdout = [i \in 1..Len(fdout) |-> bytes[i]]
    /\ committed = consumed \o in

\* C15 witness: a looping reader of 2-byte elements, a writer whose last
\* write was short, six bytes and more on fdout and elements still buffered.
C15_Witness ==
  /\ blk = "pipeline" /\ loop /\ esz = 2 /\ err = ""
  /\ call.op = "file_writer" /\ call.rd >= 1 /\ call.rd < call.readable
  /\ Len(fdout) >= 6 /\ Len(in) >= 1

\* C16 (as claimed): a decimator whose run() has executed has a stride
\* d >= 1.
C16_PositiveStride ==
  call.op = "decimator" => d >= 1

\* C17: over any sequence of decimator invocations the number of elements
\* consumed is d times the number committed (a multiple of d), and the k-th
\* element committed (from 0) is the (k*d)-th element of the input stream,
\* whose i-th element has value i.
C17_EveryDth ==
  blk = "decimator" =>
    /\ Len(consumed) = d * Len(committed)
    /\ \A k \in 1..Len(committed) : committed[k] = (k - 1) * d
    /\ \A i \in 1..Len(consumed) : consumed[i] = i - 1

\* C17 witness: stride 3, two invocations of one kept element each.
C17_Witness ==
  /\ blk = "decimator" /\ d = 3 /\ runs = MaxRuns
  /\ call.op = "decimator" /\ call.wr = 1 /\ call.rd = 3
  /\ committed = <<0, 3>> /\ Len(consumed) = 6

\* C18: one file_printer::run over n readable elements issues one write per
\* element in input order; the input is advanced, by exactly n, only when
\* every one of the n writes returned its rendered length; a write returning
\* another length ends the run in "partial write" with the input not
\* advanced and no write issued for a later element.
C18_WriteThenAdvance ==
  [][FilePrinterRun =>
       LET n   == Len(in)
           new == SubSeq(fdout', Len(fdout) + 1, Len(fdout'))
           m   == Len(new)
       IN
       /\ SubSeq(fdout', 1, Len(fdout)) = fdout
       /\ m <= n
       /\ \A i \in 1..m : new[i].val = in[i] * scale
       /\ \A i \in 1..(m - 1) : new[i].nw = new[i].len
       /\ in' # in =>
            /\ in' = <<>> /\ consumed' = consumed \o in /\ m = n
            /\ \A i \in 1..m : new[i].nw = new[i].len
       /\ (m >= 1 /\ new[m].nw # new[m].len) =>
            /\ err' = "partial write"
            /\ in' = in /\ consumed' = consumed
       /\ err' = "" => (in' = <<>> /\ m = n)
  ]_vars

\* C18 witness: the third write of a batch of four returned a wrong length,
\* after an earlier invocation that was written whole.
C18_Witness ==
  /\ blk = "file_printer" /\ err = "partial write" /\ runs = MaxRuns
  /\ call.readable = 4 /\ call.nwrites = 3 /\ Len(in) = 4
  /\ Len(consumed) >= 1 /\ Len(fdout) = Len(consumed) + 3
  /\ fdout[Len(fdout)].nw # fdout[Len(fdout)].len
  /\ fdout[Len(fdout)].val = in[3] * scale

\* C19: with the FILE adapter available and n >= 1 readable elements, one
\* file_carrayprinter::run emits the head rendered with n, then the n
\* elements in input order each as scale*re and scale*im, then the tail,
\* then a flush as its last output, and advances the input by n; with no
\* readable element it emits nothing and leaves the input unchanged.
C19_HeadElementsTailFlush ==
  [][(FileCArrayPrinterRun /\ fout = "FILE") =>
       LET n   == Len(in)
           new == SubSeq(fdout', Len(fdout) + 1, Len(fdout'))
       IN
       /\ SubSeq(fdout', 1, Len(fdout)) = fdout
       /\ n = 0 => (new = <<>> /\ in' = in /\ consumed' = consumed)
       /\ n >= 1 =>
            /\ Len(new) = n + 3
            /\ new[1] = [tok |-> "head", n |-> n]
            /\ \A i \in 1..n :
                 new[i + 1] = [tok |-> "format", re |-> scale * in[i].re,
                                                 im |-> scale * in[i].im]
            /\ new[n + 2] = [tok |-> "tail"]
            /\ new[n + 3] = [tok |-> "fflush"]
            /\ in' = <<>> /\ consumed' = consumed \o in
  ]_vars

\* C19 witness: a second invocation printed two elements at scale 2.
C19_Witness ==
  /\ blk = "file_carrayprinter" /\ fout = "FILE" /\ scale = 2
  /\ runs = MaxRuns /\ call.op = "file_carrayprinter" /\ call.rd = 2
  /\ Len(fdout) >= 5
  /\ fdout[Len(fdout)] = [tok |-> "fflush"]
  /\ fdout[Len(fdout) - 4] = [tok |-> "head", n |-> 2]
  /\ fdout[Len(fdout) - 2].re = 2 * consumed[Len(consumed)].re
  /\ in = <<>>

RECURSIVE SumSeq(_)
SumSeq(s) == IF s = <<>> THEN 0 ELSE Head(s) + SumSeq(Tail(s))

\* C20: whatever the interleaving of itemcounter invocations, upstream
\* appends and downstream drains, the values committed so far add up to the
\* number of input elements consumed so far, no committed value is below 1,
\* and a step that consumes input also commits one output element.
C20_CountConservation ==
  /\ [](blk = "itemcounter" =>
          /\ SumSeq(committed) = Len(consumed)
          /\ \A k \in 1..Len(committed) : committed[k] >= 1)
  /\ [][(blk = "itemcounter" /\ consumed' # consumed) =>
          Len(committed') = Len(committed) + 1]_vars

\* C20 witness: three counts covering all MaxItems elements of the stream,
\* with the downstream having drained all but the last.
C20_Witness ==
  /\ blk = "itemcounter" /\ call.op = "itemcounter" /\ call.wr = 1
  /\ Len(committed) = 3 /\ Len(consumed) = MaxItems
  /\ Len(out) = 1 /\ in = <<>>

====
